---- MODULE Spec2Model ----
(***************************************************************************)
(* Model of the response/error classification pipeline of the WorkOS Rust  *)
(* SDK: one operation call is  build request -> send -> classify the       *)
(* response -> (read and parse the body) -> result.                        *)
(*                                                                         *)
(* An operation call is split at its await points: send(), the body read   *)
(* the classifier awaits on an error path, and the body read of the        *)
(* success deserialization.  The classifiers themselves are operators,     *)
(* translated branch by branch from the source.                            *)
(***************************************************************************)
EXTENDS Integers, Sequences, FiniteSets, TLC

VARIABLES client, calls, transport

vars == <<client, calls, transport>>

(***************************************************************************)
(* Bounds                                                                  *)
(***************************************************************************)
\* Largest number of members of a JSON object in a response body.
MaxFields == 2

\* Largest number of boxed builders and responses a caller of the transport
\* interfaces creates.
MaxBoxes == 5

(***************************************************************************)
(* Status codes                                                            *)
(***************************************************************************)
UNAUTHORIZED == 401
BAD_REQUEST == 400
FORBIDDEN == 403

\* The status codes the remote may answer with: success codes, a
\* non-success code that is neither 4xx nor 5xx, and client/server errors.
Statuses == {200, 204, 304, BAD_REQUEST, UNAUTHORIZED, FORBIDDEN, 500}

is_success(status) == status >= 200 /\ status < 300
is_client_error(status) == status >= 400 /\ status < 500
is_server_error(status) == status >= 500 /\ status < 600

(***************************************************************************)
(* Headers: the content-type header is absent, holds bytes that are not    *)
(* visible ASCII, or holds text, written as a sequence of chunks.          *)
(***************************************************************************)
NoHeader == [kind |-> "absent"]
OpaqueHeader == [kind |-> "opaque"]
TextHeader(chunks) == [kind |-> "text", chunks |-> chunks]

ContentTypes ==
    { NoHeader,
      OpaqueHeader,
      TextHeader(<<"application/json">>),
      TextHeader(<<"Application/JSON", "; charset=utf-8">>),
      TextHeader(<<"text/html">>) }

\* str::to_lowercase on the chunks that occur in header values.
LowerChunk(c) ==
    CASE c = "Application/JSON" -> "application/json"
      [] OTHER -> c

to_lowercase(chunks) == [k \in DOMAIN chunks |-> LowerChunk(chunks[k])]

starts_with(chunks, prefix) == Len(chunks) >= 1 /\ chunks[1] = prefix

\* headers().get("content-type").and_then(to_str().ok())
\*     .is_some_and(|v| v.to_lowercase().starts_with("application/json"))
is_json_content_type(header) ==
    /\ header.kind = "text"
    /\ starts_with(to_lowercase(header.chunks), "application/json")

(***************************************************************************)
(* Bodies: the empty body, text that is not JSON, or a JSON object,        *)
(* written as the set of its members <<key, value>>.                       *)
(***************************************************************************)
EmptyBody == [kind |-> "empty"]
TextBody == [kind |-> "text"]
JsonObject(members) == [kind |-> "object", members |-> members]

Members ==
    { <<"error", "invalid_client">>,
      <<"error", "unauthorized_client">>,
      <<"error", "invalid_grant">>,
      <<"error_description", "Invalid client ID.">>,
      <<"error_description", "The code has expired.">>,
      <<"code", "invalid_client">>,
      <<"message", "Forbidden">>,
      <<"id", "org_123">>,
      <<"access_token", "eyJhb">> }

Bodies ==
    {EmptyBody, TextBody} \cup
    { JsonObject(m) : m \in { s \in SUBSET Members : Cardinality(s) <= MaxFields } }

Responses == [status : Statuses, content_type : ContentTypes, body : Bodies]

(***************************************************************************)
(* Option values: None is the empty set, Some(x) the singleton.            *)
(***************************************************************************)
None == {}
Some(x) == {x}

(***************************************************************************)
(* WorkOsError and the reqwest errors it wraps                             *)
(***************************************************************************)
\* reqwest::Error: what kind of failure it is and the status it carries
\* (only an error made from a response's status carries one).
StatusErr(status) == [cause |-> "status", status |-> Some(status)]
DecodeErr == [cause |-> "decode", status |-> None]
ConnectErr == [cause |-> "connect", status |-> None]

Unauthorized == [kind |-> "Unauthorized"]
Operation(e) == [kind |-> "Operation", error |-> e]
RequestError(err) == [kind |-> "RequestError", cause |-> err.cause, status |-> err.status]
ApiError(value) == [kind |-> "ApiError", value |-> value]

Ok(value) == [kind |-> "Ok", value |-> value]
NoResult == [kind |-> "none"]

(***************************************************************************)
(* Deserialization (serde): a struct is read from a JSON object that has   *)
(* each required field exactly once; unknown members are ignored.          *)
(***************************************************************************)
ParseOk(value) == [ok |-> TRUE, value |-> value]
ParseFail == [ok |-> FALSE]

MembersNamed(body, keys) == { m \in body.members : m[1] \in keys }

HasOnce(body, keys) == Cardinality(MembersNamed(body, keys)) = 1

Field(body, keys) == (CHOOSE m \in MembersNamed(body, keys) : TRUE)[2]

\* Response::json() into an untyped JSON value: any JSON document.
from_json_value(body) ==
    IF body.kind = "object" THEN ParseOk(body.members) ELSE ParseFail

\* AuthenticateWithCodeError { error, error_description }
from_json_AuthenticateWithCodeError(body) ==
    IF body.kind # "object" THEN ParseFail
    ELSE IF ~HasOnce(body, {"error"}) \/ ~HasOnce(body, {"error_description"})
         THEN ParseFail
    ELSE ParseOk([error |-> Field(body, {"error"}),
                  error_description |-> Field(body, {"error_description"})])

\* AuthenticateWithRefreshTokenError { error, error_description }
from_json_AuthenticateWithRefreshTokenError(body) ==
    IF body.kind # "object" THEN ParseFail
    ELSE IF ~HasOnce(body, {"error"}) \/ ~HasOnce(body, {"error_description"})
         THEN ParseFail
    ELSE ParseOk([error |-> Field(body, {"error"}),
                  error_description |-> Field(body, {"error_description"})])

\* AuthenticateError { code (alias error), message (alias error_description) }
from_json_AuthenticateError(body) ==
    IF body.kind # "object" THEN ParseFail
    ELSE IF ~HasOnce(body, {"code", "error"})
            \/ ~HasOnce(body, {"message", "error_description"})
         THEN ParseFail
    ELSE ParseOk([code |-> Field(body, {"code", "error"}),
                  message |-> Field(body, {"message", "error_description"})])

\* Organization: of its required fields the model keeps `id`.
from_json_Organization(body) ==
    IF body.kind # "object" THEN ParseFail
    ELSE IF ~HasOnce(body, {"id"}) THEN ParseFail
    ELSE ParseOk([id |-> Field(body, {"id"})])

\* AuthenticateWithCodeResponse / AuthenticateWithRefreshTokenResponse: of
\* their required fields the model keeps `access_token`.
from_json_AuthenticateResponse(body) ==
    IF body.kind # "object" THEN ParseFail
    ELSE IF ~HasOnce(body, {"access_token"}) THEN ParseFail
    ELSE ParseOk([access_token |-> Field(body, {"access_token"})])

(***************************************************************************)
(* reqwest::Response::error_for_status / error_for_status_ref              *)
(***************************************************************************)
error_for_status(response) ==
    IF is_client_error(response.status) \/ is_server_error(response.status)
    THEN [ok |-> FALSE, err |-> StatusErr(response.status)]
    ELSE [ok |-> TRUE, response |-> response]

error_for_status_ref(response) == error_for_status(response)

(***************************************************************************)
(* Classifiers.  A classifier either passes the response on or fails with  *)
(* an error; `reads` is the number of times it reads the response body.    *)
(***************************************************************************)
Pass(response) == [ok |-> TRUE, response |-> response, reads |-> 0]
Fail(error, reads) == [ok |-> FALSE, error |-> error, reads |-> reads]

\* Mutant: the unauthorized check compares with the wrong status code.
handle_unauthorized_error_wrong_status(response) ==
    IF response.status = FORBIDDEN
    THEN Fail(Unauthorized, 0)
    ELSE Pass(response)

handle_unauthorized_error(response) ==
    IF response.status = UNAUTHORIZED
    THEN Fail(Unauthorized, 0)
    ELSE Pass(response)

\* Mutant: the success branch hands on a response whose body was drained.
handle_generic_error_drains_body(response) ==
    LET status == response.status IN
    IF is_client_error(status) \/ is_server_error(status)
    THEN IF is_json_content_type(response.content_type)
         THEN LET parsed == from_json_value(response.body) IN
              IF parsed.ok
              THEN Fail(ApiError(parsed.value), 1)
              ELSE Fail(RequestError(DecodeErr), 1)
         ELSE Fail(RequestError(StatusErr(status)), 0)
    ELSE Pass([response EXCEPT !.body = EmptyBody])

\* Mutant: only client errors are treated as errors.
handle_generic_error_client_only(response) ==
    LET status == response.status IN
    IF is_client_error(status)
    THEN IF is_json_content_type(response.content_type)
         THEN LET parsed == from_json_value(response.body) IN
              IF parsed.ok
              THEN Fail(ApiError(parsed.value), 1)
              ELSE Fail(RequestError(DecodeErr), 1)
         ELSE Fail(RequestError(StatusErr(status)), 0)
    ELSE Pass(response)

\* Mutant: a JSON body that fails to parse is read again as text.
handle_generic_error_text_fallback(response) ==
    LET status == response.status IN
    IF is_client_error(status) \/ is_server_error(status)
    THEN IF is_json_content_type(response.content_type)
         THEN LET parsed == from_json_value(response.body) IN
              IF parsed.ok
              THEN Fail(ApiError(parsed.value), 1)
              ELSE Fail(RequestError(StatusErr(status)), 2)
         ELSE Fail(RequestError(StatusErr(status)), 0)
    ELSE Pass(response)

\* Mutant: a body that is not JSON is read as text and returned in ApiError.
handle_generic_error_reads_text(response) ==
    LET status == response.status IN
    IF is_client_error(status) \/ is_server_error(status)
    THEN IF is_json_content_type(response.content_type)
         THEN LET parsed == from_json_value(response.body) IN
              IF parsed.ok
              THEN Fail(ApiError(parsed.value), 1)
              ELSE Fail(RequestError(DecodeErr), 1)
         ELSE Fail([kind |-> "ApiError", status |-> Some(status),
                    body |-> response.body], 1)
    ELSE Pass(response)

\* Mutant: the content type is compared without lower-casing it.
handle_generic_error_case_sensitive(response) ==
    LET status == response.status IN
    IF is_client_error(status) \/ is_server_error(status)
    THEN IF /\ response.content_type.kind = "text"
            /\ starts_with(response.content_type.chunks, "application/json")
         THEN LET parsed == from_json_value(response.body) IN
              IF parsed.ok
              THEN Fail(ApiError(parsed.value), 1)
              ELSE Fail(RequestError(DecodeErr), 1)
         ELSE LET checked == error_for_status(response) IN
              IF checked.ok
              THEN Pass(checked.response)
              ELSE Fail(RequestError(checked.err), 0)
    ELSE Pass(response)

handle_generic_error(response) ==
    LET status == response.status IN
    IF is_client_error(status) \/ is_server_error(status)
    THEN IF is_json_content_type(response.content_type)
         THEN LET parsed == from_json_value(response.body) IN
              IF parsed.ok
              THEN Fail(ApiError(parsed.value), 1)
              ELSE Fail(RequestError(DecodeErr), 1)
         ELSE LET checked == error_for_status(response) IN
              IF checked.ok
              THEN Pass(checked.response)
              ELSE Fail(RequestError(checked.err), 0)
    ELSE Pass(response)

\* Mutant: the generic handling runs before the unauthorized check.
handle_unauthorized_or_generic_error_generic_first(response) ==
    LET first == handle_generic_error(response) IN
    IF first.ok THEN handle_unauthorized_error(first.response) ELSE first

handle_unauthorized_or_generic_error(response) ==
    LET first == handle_unauthorized_error(response) IN
    IF first.ok THEN handle_generic_error(first.response) ELSE first

\* Mutant: the parsed payload is dropped and the status error returned.
handle_authenticate_with_code_error_drops_payload(response) ==
    LET checked == error_for_status_ref(response) IN
    IF checked.ok THEN Pass(response)
    ELSE IF checked.err.status = Some(BAD_REQUEST)
         THEN LET parsed == from_json_AuthenticateWithCodeError(response.body) IN
              IF ~parsed.ok THEN Fail(RequestError(DecodeErr), 1)
              ELSE IF parsed.value.error \in {"invalid_client", "unauthorized_client"}
                   THEN Fail(Unauthorized, 1)
                   ELSE Fail(RequestError(checked.err), 1)
         ELSE Fail(RequestError(checked.err), 0)

\* Mutant: a 403 is parsed like a 400.
handle_authenticate_with_code_error_parses_forbidden(response) ==
    LET checked == error_for_status_ref(response) IN
    IF checked.ok THEN Pass(response)
    ELSE IF checked.err.status \in {Some(BAD_REQUEST), Some(FORBIDDEN)}
         THEN LET parsed == from_json_AuthenticateWithCodeError(response.body) IN
              IF ~parsed.ok THEN Fail(RequestError(DecodeErr), 1)
              ELSE IF parsed.value.error \in {"invalid_client", "unauthorized_client"}
                   THEN Fail(Unauthorized, 1)
                   ELSE Fail(Operation(parsed.value), 1)
         ELSE Fail(RequestError(checked.err), 0)

handle_authenticate_with_code_error(response) ==
    LET checked == error_for_status_ref(response) IN
    IF checked.ok THEN Pass(response)
    ELSE IF checked.err.status = Some(BAD_REQUEST)
         THEN LET parsed == from_json_AuthenticateWithCodeError(response.body) IN
              IF ~parsed.ok THEN Fail(RequestError(DecodeErr), 1)
              ELSE IF parsed.value.error \in {"invalid_client", "unauthorized_client"}
                   THEN Fail(Unauthorized, 1)
                   ELSE Fail(Operation(parsed.value), 1)
         ELSE Fail(RequestError(checked.err), 0)

\* Mutant: only invalid_client is mapped to Unauthorized.
handle_authenticate_with_refresh_token_error_invalid_client_only(response) ==
    LET checked == error_for_status_ref(response) IN
    IF checked.ok THEN Pass(response)
    ELSE IF checked.err.status = Some(BAD_REQUEST)
         THEN LET parsed == from_json_AuthenticateWithRefreshTokenError(response.body) IN
              IF ~parsed.ok THEN Fail(RequestError(DecodeErr), 1)
              ELSE IF parsed.value.error = "invalid_client"
                   THEN Fail(Unauthorized, 1)
                   ELSE Fail(Operation(parsed.value), 1)
         ELSE Fail(RequestError(checked.err), 0)

\* Mutant: a 401 is answered with Unauthorized.
handle_authenticate_with_refresh_token_error_maps_401(response) ==
    LET checked == error_for_status_ref(response) IN
    IF checked.ok THEN Pass(response)
    ELSE IF checked.err.status = Some(BAD_REQUEST)
         THEN LET parsed == from_json_AuthenticateWithRefreshTokenError(response.body) IN
              IF ~parsed.ok THEN Fail(RequestError(DecodeErr), 1)
              ELSE IF parsed.value.error \in {"invalid_client", "unauthorized_client"}
                   THEN Fail(Unauthorized, 1)
                   ELSE Fail(Operation(parsed.value), 1)
         ELSE IF checked.err.status = Some(UNAUTHORIZED)
         THEN Fail(Unauthorized, 0)
         ELSE Fail(RequestError(checked.err), 0)

handle_authenticate_with_refresh_token_error(response) ==
    LET checked == error_for_status_ref(response) IN
    IF checked.ok THEN Pass(response)
    ELSE IF checked.err.status = Some(BAD_REQUEST)
         THEN LET parsed == from_json_AuthenticateWithRefreshTokenError(response.body) IN
              IF ~parsed.ok THEN Fail(RequestError(DecodeErr), 1)
              ELSE IF parsed.value.error \in {"invalid_client", "unauthorized_client"}
                   THEN Fail(Unauthorized, 1)
                   ELSE Fail(Operation(parsed.value), 1)
         ELSE Fail(RequestError(checked.err), 0)

\* Mutant: a 403 payload that fails to parse yields an empty Operation error.
handle_authenticate_error_defaults_payload(response) ==
    LET checked == error_for_status_ref(response) IN
    IF checked.ok THEN Pass(response)
    ELSE IF checked.err.status = Some(BAD_REQUEST)
         THEN LET parsed == from_json_AuthenticateError(response.body) IN
              IF ~parsed.ok THEN Fail(RequestError(DecodeErr), 1)
              ELSE IF parsed.value.code \in {"invalid_client", "unauthorized_client"}
                   THEN Fail(Unauthorized, 1)
                   ELSE Fail(Operation(parsed.value), 1)
         ELSE IF checked.err.status = Some(FORBIDDEN)
         THEN LET parsed == from_json_AuthenticateError(response.body) IN
              IF ~parsed.ok THEN Fail(Operation([code |-> "", message |-> ""]), 1)
              ELSE Fail(Operation(parsed.value), 1)
         ELSE Fail(RequestError(checked.err), 0)

\* Mutant: the 403 branch maps the client codes to Unauthorized as the 400
\* branch does.
handle_authenticate_error_forbidden_as_bad_request(response) ==
    LET checked == error_for_status_ref(response) IN
    IF checked.ok THEN Pass(response)
    ELSE IF checked.err.status \in {Some(BAD_REQUEST), Some(FORBIDDEN)}
         THEN LET parsed == from_json_AuthenticateError(response.body) IN
              IF ~parsed.ok THEN Fail(RequestError(DecodeErr), 1)
              ELSE IF parsed.value.code \in {"invalid_client", "unauthorized_client"}
                   THEN Fail(Unauthorized, 1)
                   ELSE Fail(Operation(parsed.value), 1)
         ELSE Fail(RequestError(checked.err), 0)

handle_authenticate_error(response) ==
    LET checked == error_for_status_ref(response) IN
    IF checked.ok THEN Pass(response)
    ELSE IF checked.err.status = Some(BAD_REQUEST)
         THEN LET parsed == from_json_AuthenticateError(response.body) IN
              IF ~parsed.ok THEN Fail(RequestError(DecodeErr), 1)
              ELSE IF parsed.value.code \in {"invalid_client", "unauthorized_client"}
                   THEN Fail(Unauthorized, 1)
                   ELSE Fail(Operation(parsed.value), 1)
         ELSE IF checked.err.status = Some(FORBIDDEN)
         THEN LET parsed == from_json_AuthenticateError(response.body) IN
              IF ~parsed.ok THEN Fail(RequestError(DecodeErr), 1)
              ELSE Fail(Operation(parsed.value), 1)
         ELSE Fail(RequestError(checked.err), 0)

(***************************************************************************)
(* Operations                                                              *)
(***************************************************************************)
\* The operations of the model: three that use the generic classifier (one
\* that deserializes the success body, two that return unit), the two
\* authenticate operations with their own classifiers, and a crate-internal
\* caller that applies the shared authenticate classifier to the response
\* of the authenticate endpoint.
Ops ==
    { "create_organization", "delete_user", "delete_organization_membership",
      "authenticate_with_code", "authenticate_with_refresh_token",
      "handle_authenticate_error" }

\* Operations that end with Ok(()) once the classifier has passed the response.
UnitOps == {"delete_user", "delete_organization_membership"}

AuthenticateOps == {"authenticate_with_code", "authenticate_with_refresh_token"}

\* Operations that deserialize the body of the response the classifier passed.
DeserializingOps == {"create_organization"} \cup AuthenticateOps

Classifier(op, response) ==
    CASE op = "create_organization" -> handle_unauthorized_or_generic_error(response)
      [] op = "delete_user" -> handle_unauthorized_or_generic_error(response)
      [] op = "delete_organization_membership" ->
             handle_unauthorized_or_generic_error(response)
      [] op = "authenticate_with_code" -> handle_authenticate_with_code_error(response)
      [] op = "authenticate_with_refresh_token" ->
             handle_authenticate_with_refresh_token_error(response)
      [] op = "handle_authenticate_error" -> handle_authenticate_error(response)

\* .json::<T>() of the success path, T the operation's target type.
from_json_target(op, body) ==
    CASE op = "create_organization" -> from_json_Organization(body)
      [] op \in AuthenticateOps -> from_json_AuthenticateResponse(body)

NoRequest == [kind |-> "none"]
NoResponse == [kind |-> "none"]

(***************************************************************************)
(* Credentials and URLs                                                    *)
(***************************************************************************)
\* ApiKey(String) and ClientSecret(String): newtypes around the secret text.
ApiKey(text) == [type |-> "ApiKey", secret |-> text]
ClientSecret(text) == [type |-> "ClientSecret", secret |-> text]

\* impl Display: write!(f, "{}", self.0)
Display(credential) == credential.secret

\* derive(Serialize) on a newtype struct: the inner string; Option::None
\* serializes as null.
Serialize(option) ==
    IF option = None THEN "null" ELSE (CHOOSE c \in option : TRUE).secret

ConfiguredKey == ApiKey("sk_example_123456789")

\* The client secrets a caller passes to authenticate_with_code: none, the
\* secret that is also the configured API key, or another one.
ClientSecrets ==
    { None, Some(ClientSecret("sk_example_123456789")),
      Some(ClientSecret("sk_test_987654321")) }

\* Base URLs a client can be configured with: a hierarchical one and one
\* that cannot be a base (a relative reference cannot be joined to it).
BaseUrls ==
    { [text |-> "https://api.workos.com", cannot_be_a_base |-> FALSE],
      [text |-> "mailto:dev@example.com", cannot_be_a_base |-> TRUE] }

\* Url::join with an absolute path.
url_join(base, path) ==
    IF base.cannot_be_a_base
    THEN [ok |-> FALSE]
    ELSE [ok |-> TRUE, url |-> [origin |-> base.text, path |-> path]]

UrlParseError == [kind |-> "UrlParseError"]
ApiKeyRequired == [kind |-> "ApiKeyRequired"]

(***************************************************************************)
(* Request builders                                                        *)
(***************************************************************************)
NewRequest(method, url) ==
    [kind |-> "request", method |-> method, url |-> url,
     authorization |-> None, query |-> {}, body |-> {}]

post(url) == NewRequest("POST", url)
delete(url) == NewRequest("DELETE", url)

\* RequestBuilder::bearer_auth: Authorization: Bearer <token as displayed>
bearer_auth(request, token) ==
    [request EXCEPT !.authorization = Some(<<"Bearer ", Display(token)>>)]

\* RequestBuilder::json: the serialized members become the request body.
json(request, members) == [request EXCEPT !.body = members]

\* RequestBuilder::query: the serialized members become the query string.
query(request, members) == [request EXCEPT !.query = members]

TheKey(cl) == CHOOSE k \in cl.api_key : TRUE

Built(request) == [ok |-> TRUE, request |-> request]
NotBuilt(error) == [ok |-> FALSE, error |-> error]

\* The part of each operation that precedes send(): the URL is joined, the
\* credentials are taken and the request is built; `?` returns early.
\* Mutant: the bearer_auth step is missing.
create_organization_request_without_bearer(cl) ==
    LET url == url_join(cl.base_url, "/organizations") IN
    IF ~url.ok THEN NotBuilt(UrlParseError)
    ELSE Built(json(post(url.url), {<<"name", "Foo Corp">>}))

create_organization_request(cl) ==
    LET url == url_join(cl.base_url, "/organizations") IN
    IF ~url.ok THEN NotBuilt(UrlParseError)
    ELSE Built(json(bearer_auth(post(url.url), TheKey(cl)),
                    {<<"name", "Foo Corp">>}))

\* Mutant: the key is also sent as a query parameter.
delete_user_request_key_in_query(cl) ==
    LET url == url_join(cl.base_url, "/user_management/users/user_01") IN
    IF ~url.ok THEN NotBuilt(UrlParseError)
    ELSE Built(query(bearer_auth(delete(url.url), TheKey(cl)),
                     {<<"api_key", Display(TheKey(cl))>>}))

delete_user_request(cl) ==
    LET url == url_join(cl.base_url, "/user_management/users/user_01") IN
    IF ~url.ok THEN NotBuilt(UrlParseError)
    ELSE Built(bearer_auth(delete(url.url), TheKey(cl)))

delete_organization_membership_request(cl) ==
    LET url == url_join(cl.base_url, "/user_management/organization_memberships/om_01") IN
    IF ~url.ok THEN NotBuilt(UrlParseError)
    ELSE Built(bearer_auth(delete(url.url), TheKey(cl)))

authenticate_with_code_request(cl, params) ==
    LET url == url_join(cl.base_url, "/user_management/authenticate") IN
    IF ~url.ok THEN NotBuilt(UrlParseError)
    ELSE Built(json(post(url.url),
                    {<<"grant_type", "authorization_code">>,
                     <<"client_id", "client_123456789">>,
                     <<"client_secret", Serialize(params.client_secret)>>,
                     <<"code", "abc123">>}))

\* Mutant: the key is taken before the URL is joined.
authenticate_with_refresh_token_request_key_first(cl) ==
    LET url == url_join(cl.base_url, "/user_management/authenticate") IN
    IF cl.api_key = None THEN NotBuilt(ApiKeyRequired)
    ELSE IF ~url.ok THEN NotBuilt(UrlParseError)
    ELSE Built(json(post(url.url),
                    {<<"client_secret", Serialize(cl.api_key)>>,
                     <<"grant_type", "refresh_token">>,
                     <<"client_id", "client_123456789">>,
                     <<"refresh_token", "abc123">>}))

\* Mutant: a missing key is serialized as null instead of being an error.
authenticate_with_refresh_token_request_null_secret(cl) ==
    LET url == url_join(cl.base_url, "/user_management/authenticate") IN
    IF ~url.ok THEN NotBuilt(UrlParseError)
    ELSE Built(json(post(url.url),
                    {<<"client_secret", Serialize(cl.api_key)>>,
                     <<"grant_type", "refresh_token">>,
                     <<"client_id", "client_123456789">>,
                     <<"refresh_token", "abc123">>}))

authenticate_with_refresh_token_request(cl) ==
    LET url == url_join(cl.base_url, "/user_management/authenticate") IN
    IF ~url.ok THEN NotBuilt(UrlParseError)
    ELSE IF cl.api_key = None THEN NotBuilt(ApiKeyRequired)
    ELSE Built(json(post(url.url),
                    {<<"client_secret", Serialize(cl.api_key)>>,
                     <<"grant_type", "refresh_token">>,
                     <<"client_id", "client_123456789">>,
                     <<"refresh_token", "abc123">>}))

\* The crate-internal caller of the shared authenticate classifier posts to
\* the authenticate endpoint.
authenticate_request(cl) ==
    LET url == url_join(cl.base_url, "/user_management/authenticate") IN
    IF ~url.ok THEN NotBuilt(UrlParseError)
    ELSE Built(post(url.url))

BuildRequest(op, cl, params) ==
    CASE op = "create_organization" -> create_organization_request(cl)
      [] op = "delete_user" -> delete_user_request(cl)
      [] op = "delete_organization_membership" ->
             delete_organization_membership_request(cl)
      [] op = "authenticate_with_code" -> authenticate_with_code_request(cl, params)
      [] op = "authenticate_with_refresh_token" ->
             authenticate_with_refresh_token_request(cl)
      [] op = "handle_authenticate_error" -> authenticate_request(cl)

\* Operations that pass self.workos.key() to bearer_auth: they are written
\* for a client whose key is present.
BearerOps ==
    {"create_organization", "delete_user", "delete_organization_membership"}

NoParams == [client_secret |-> None]

\* The parameters a caller can pass to the operation.
ParamsOf(op) ==
    IF op = "authenticate_with_code"
    THEN [client_secret : ClientSecrets]
    ELSE {NoParams}

(***************************************************************************)
(* State                                                                   *)
(***************************************************************************)
CallIds == {"call"}

\* The boxes (Box<dyn ClientRequest>, Box<dyn ClientResponse>) a caller of
\* the transport interfaces holds or has given away, and for every request
\* the number of times it was sent and its response body was read.
NoTransport == [boxes |-> <<>>, sent |-> <<>>, read |-> <<>>]

\* A call that has not started.  `response` is the response send() returned,
\* `passed` the response the classifier handed on.
NewCall ==
    [pc |-> "idle", op |-> "none", params |-> NoParams,
     request |-> NoRequest, sends |-> 0,
     response |-> NoResponse, classified |-> 0, passed |-> NoResponse,
     body_reads |-> 0, result |-> NoResult]

Init ==
    /\ client \in [api_key : {None, Some(ConfiguredKey)}, base_url : BaseUrls]
    /\ calls = [i \in CallIds |-> NewCall]
    /\ transport = NoTransport

(***************************************************************************)
(* Steps of an operation call                                              *)
(***************************************************************************)
\* The caller invokes the operation: the URL and the request are built, or
\* the call returns early with the error of the failed step.
Begin(i, op, params) ==
    /\ calls[i].pc = "idle"
    /\ op \in BearerOps => client.api_key # None
    /\ LET built == BuildRequest(op, client, params) IN
       calls' = [calls EXCEPT ![i] =
                   IF built.ok
                   THEN [@ EXCEPT !.pc = "built", !.op = op, !.params = params,
                                  !.request = built.request]
                   ELSE [@ EXCEPT !.pc = "done", !.op = op, !.params = params,
                                  !.result = built.error]]
    /\ UNCHANGED <<client, transport>>

\* Mutant: the operation deserializes the response without classifying it.
SendOk_skips_classifier(i, response) ==
    /\ calls[i].pc = "built"
    /\ calls' = [calls EXCEPT ![i] =
                   [@ EXCEPT !.pc = IF calls[i].op \in DeserializingOps
                                    THEN "deserialize" ELSE "classify",
                             !.sends = @ + 1,
                             !.response = response, !.passed = response]]
    /\ UNCHANGED <<client, transport>>

\* Mutant: the client keeps the last response in a slot that other calls
\* waiting to classify read theirs from.
SendOk_shared_response_slot(i, response) ==
    /\ calls[i].pc = "built"
    /\ calls' = [j \in DOMAIN calls |->
                   IF j = i
                   THEN [calls[j] EXCEPT !.pc = "classify", !.sends = @ + 1,
                                         !.response = response]
                   ELSE IF calls[j].pc = "classify"
                        THEN [calls[j] EXCEPT !.response = response]
                        ELSE calls[j]]
    /\ UNCHANGED <<client, transport>>

\* send().await returns a response.
SendOk(i, response) ==
    /\ calls[i].pc = "built"
    /\ calls' = [calls EXCEPT ![i] =
                   [@ EXCEPT !.pc = "classify", !.sends = @ + 1,
                             !.response = response]]
    /\ UNCHANGED <<client, transport>>

\* Mutant: a failed send is reported as an unauthorized response.
SendFails_as_unauthorized(i) ==
    /\ calls[i].pc = "built"
    /\ calls' = [calls EXCEPT ![i] =
                   [@ EXCEPT !.pc = "done", !.sends = @ + 1,
                             !.result = Unauthorized]]
    /\ UNCHANGED <<client, transport>>

\* Mutant: a failed send is retried.
SendFails_retries(i) ==
    /\ calls[i].pc = "built"
    /\ calls' = [calls EXCEPT ![i] = [@ EXCEPT !.sends = @ + 1]]
    /\ UNCHANGED <<client, transport>>

\* send().await fails below HTTP; `?` turns the error into RequestError.
SendFails(i) ==
    /\ calls[i].pc = "built"
    /\ calls' = [calls EXCEPT ![i] =
                   [@ EXCEPT !.pc = "done", !.sends = @ + 1,
                             !.result = RequestError(ConnectErr)]]
    /\ UNCHANGED <<client, transport>>

\* Mutant: a unit operation accepts a success response only if its body is
\* empty.
Classify_unit_requires_empty_body(i) ==
    /\ calls[i].pc = "classify"
    /\ LET c == Classifier(calls[i].op, calls[i].response) IN
       calls' = [calls EXCEPT ![i] =
            IF c.ok
            THEN IF calls[i].op \in DeserializingOps
                 THEN [@ EXCEPT !.pc = "deserialize", !.classified = @ + 1,
                                !.passed = c.response]
                 ELSE [@ EXCEPT !.pc = "done", !.classified = @ + 1,
                                !.passed = c.response,
                                !.body_reads = IF calls[i].op \in UnitOps
                                               THEN @ + 1 ELSE @,
                                !.result = IF calls[i].op \in UnitOps
                                           THEN IF c.response.body = EmptyBody
                                                THEN Ok("unit")
                                                ELSE RequestError(DecodeErr)
                                           ELSE Ok(c.response)]
            ELSE IF c.reads = 0
                 THEN [@ EXCEPT !.pc = "done", !.classified = @ + 1,
                                !.result = c.error]
                 ELSE [@ EXCEPT !.pc = "read_error_body",
                                !.classified = @ + 1]]
    /\ UNCHANGED <<client, transport>>

\* The operation's classifier runs on the response, up to its await of the
\* body if it has one.
Classify(i) ==
    /\ calls[i].pc = "classify"
    /\ LET c == Classifier(calls[i].op, calls[i].response) IN
       calls' = [calls EXCEPT ![i] =
            IF c.ok
            THEN IF calls[i].op \in DeserializingOps
                 THEN [@ EXCEPT !.pc = "deserialize", !.classified = @ + 1,
                                !.passed = c.response]
                 ELSE [@ EXCEPT !.pc = "done", !.classified = @ + 1,
                                !.passed = c.response,
                                !.result = IF calls[i].op \in UnitOps
                                           THEN Ok("unit")
                                           ELSE Ok(c.response)]
            ELSE IF c.reads = 0
                 THEN [@ EXCEPT !.pc = "done", !.classified = @ + 1,
                                !.result = c.error]
                 ELSE [@ EXCEPT !.pc = "read_error_body",
                                !.classified = @ + 1]]
    /\ UNCHANGED <<client, transport>>

\* Mutant: the body read of the classifier never completes on an empty body.
ReadErrorBody_waits_on_empty_body(i) ==
    /\ calls[i].pc = "read_error_body"
    /\ calls[i].response.body # EmptyBody
    /\ LET c == Classifier(calls[i].op, calls[i].response) IN
       calls' = [calls EXCEPT ![i] =
                   [@ EXCEPT !.pc = "done", !.body_reads = @ + c.reads,
                             !.result = c.error]]
    /\ UNCHANGED <<client, transport>>

\* The classifier's json().await completes: the body has been read and the
\* error is returned.
ReadErrorBody(i) ==
    /\ calls[i].pc = "read_error_body"
    /\ LET c == Classifier(calls[i].op, calls[i].response) IN
       calls' = [calls EXCEPT ![i] =
                   [@ EXCEPT !.pc = "done", !.body_reads = @ + c.reads,
                             !.result = c.error]]
    /\ UNCHANGED <<client, transport>>

\* Mutant: a body that does not parse yields a defaulted object.
Deserialize_defaults_on_failure(i) ==
    /\ calls[i].pc = "deserialize"
    /\ LET parsed == from_json_target(calls[i].op, calls[i].passed.body) IN
       calls' = [calls EXCEPT ![i] =
                   [@ EXCEPT !.pc = "done", !.body_reads = @ + 1,
                             !.result = IF parsed.ok
                                        THEN Ok(parsed.value)
                                        ELSE Ok([id |-> ""])]]
    /\ UNCHANGED <<client, transport>>

\* Mutant: the body read is started while send() is still in flight.
Deserialize_before_send(i) ==
    /\ calls[i].pc \in {"built", "deserialize"}
    /\ calls[i].op \in DeserializingOps
    /\ LET parsed == IF calls[i].pc = "built" THEN ParseFail
                     ELSE from_json_target(calls[i].op, calls[i].passed.body) IN
       calls' = [calls EXCEPT ![i] =
                   [@ EXCEPT !.pc = "done", !.body_reads = @ + 1,
                             !.result = IF parsed.ok
                                        THEN Ok(parsed.value)
                                        ELSE RequestError(DecodeErr)]]
    /\ UNCHANGED <<client, transport>>

\* .json::<T>().await on the response the classifier passed.
Deserialize(i) ==
    /\ calls[i].pc = "deserialize"
    /\ LET parsed == from_json_target(calls[i].op, calls[i].passed.body) IN
       calls' = [calls EXCEPT ![i] =
                   [@ EXCEPT !.pc = "done", !.body_reads = @ + 1,
                             !.result = IF parsed.ok
                                        THEN Ok(parsed.value)
                                        ELSE RequestError(DecodeErr)]]
    /\ UNCHANGED <<client, transport>>

Next ==
    \/ \E i \in CallIds, op \in Ops : \E params \in ParamsOf(op) : Begin(i, op, params)
    \/ \E i \in CallIds, response \in Responses : SendOk(i, response)
    \/ \E i \in CallIds : SendFails(i)
    \/ \E i \in CallIds : Classify(i)
    \/ \E i \in CallIds : ReadErrorBody(i)
    \/ \E i \in CallIds : Deserialize(i)

Spec == Init /\ [][Next]_vars

TypeOK ==
    \A i \in CallIds :
        /\ calls[i].pc \in {"idle", "built", "classify", "read_error_body",
                            "deserialize", "done"}
        /\ calls[i].sends \in 0..1
        /\ calls[i].body_reads \in 0..2

(***************************************************************************)
(* Properties                                                              *)
(***************************************************************************)
\* Operations whose classifier is handle_unauthorized_or_generic_error.
GenericOps ==
    {"create_organization", "delete_user", "delete_organization_membership"}

HasResponse(i) == calls[i].response # NoResponse
Done(i) == calls[i].pc = "done"
Classified(i) == calls[i].classified >= 1

ErrorKinds == {"Operation", "Unauthorized", "RequestError", "ApiError"}

\* The status an error value lets its holder recover.
StatusOf(result) == IF "status" \in DOMAIN result THEN result.status ELSE None

\* C1: for every response with status 401, whatever its content type and
\* body, handle_unauthorized_or_generic_error returns Err(Unauthorized).
C1_Unauthorized401 ==
    \A i \in CallIds :
        (/\ calls[i].op \in GenericOps
         /\ HasResponse(i)
         /\ calls[i].response.status = 401
         /\ Classified(i))
        => /\ Done(i)
           /\ calls[i].result = Unauthorized

C1_Witness ==
    \E i \in CallIds :
        /\ calls[i].op = "create_organization"
        /\ HasResponse(i)
        /\ calls[i].response.status = 401
        /\ calls[i].response.content_type = TextHeader(<<"application/json">>)
        /\ calls[i].response.body = JsonObject({<<"id", "org_123">>})
        /\ calls[i].result = Unauthorized

\* C2 (as claimed): every operation, the authenticate operations and the
\* shared authenticate handler included, returns Unauthorized when the
\* remote answers 401.
C2_EveryOperationUnauthorized401 ==
    \A i \in CallIds :
        (Done(i) /\ HasResponse(i) /\ calls[i].response.status = 401)
        => calls[i].result = Unauthorized

\* C3: when the response has status 401 its body is never read: no body
\* read is pending or done at any point of the call.
C3_NoBodyReadOn401 ==
    \A i \in CallIds :
        (HasResponse(i) /\ calls[i].response.status = 401)
        => /\ calls[i].body_reads = 0
           /\ calls[i].pc \notin {"read_error_body", "deserialize"}

C3_Witness ==
    \E i \in CallIds :
        /\ calls[i].op \in GenericOps
        /\ HasResponse(i)
        /\ calls[i].response.status = 401
        /\ calls[i].response.content_type =
               TextHeader(<<"Application/JSON", "; charset=utf-8">>)
        /\ calls[i].response.body.kind = "object"
        /\ Done(i)
        /\ calls[i].result = Unauthorized
        /\ calls[i].body_reads = 0

\* C4: for every response with a 2xx status the classifier returns Ok
\* carrying the very same response (status, headers, body), without having
\* read the body: the only body read of the call is the caller's
\* deserialization.
C4_SuccessPassthrough ==
    \A i \in CallIds :
        (/\ calls[i].op \in GenericOps
         /\ HasResponse(i)
         /\ is_success(calls[i].response.status)
         /\ Classified(i))
        => /\ calls[i].passed = calls[i].response
           /\ calls[i].pc \in {"deserialize", "done"}
           /\ (calls[i].pc = "deserialize" => calls[i].body_reads = 0)
           /\ (Done(i) /\ calls[i].op = "delete_user"
                  => calls[i].body_reads = 0 /\ calls[i].result = Ok("unit"))
           /\ (Done(i) /\ calls[i].op = "create_organization"
                  => calls[i].body_reads = 1)

C4_Witness ==
    \E i \in CallIds :
        /\ calls[i].op = "create_organization"
        /\ HasResponse(i)
        /\ calls[i].response.status = 200
        /\ calls[i].response.body = JsonObject({<<"id", "org_123">>})
        /\ calls[i].pc = "deserialize"
        /\ calls[i].passed = calls[i].response
        /\ calls[i].body_reads = 0

\* C5 (as claimed): for every response with a status outside [200,300) the
\* classifier returns an error and the body is not handed to success
\* deserialization.
C5_OnlySuccessPasses ==
    \A i \in CallIds :
        (/\ calls[i].op \in GenericOps
         /\ HasResponse(i)
         /\ ~is_success(calls[i].response.status)
         /\ Classified(i))
        => /\ calls[i].passed = NoResponse
           /\ calls[i].pc # "deserialize"
           /\ (Done(i) => calls[i].result.kind \in ErrorKinds)

\* C5 (amended): for every response with a 4xx or 5xx status the classifier
\* returns an error and the body is not handed to success deserialization;
\* a response with any other status is passed on as Ok.
C5_ErrorStatusNeverPasses ==
    \A i \in CallIds :
        (/\ calls[i].op \in GenericOps
         /\ HasResponse(i)
         /\ Classified(i))
        => IF calls[i].response.status >= 400 /\ calls[i].response.status < 600
           THEN /\ calls[i].passed = NoResponse
                /\ calls[i].pc # "deserialize"
                /\ (Done(i) => calls[i].result.kind \in ErrorKinds)
           ELSE calls[i].passed = calls[i].response

C5_Witness ==
    \E i \in CallIds :
        /\ calls[i].op = "create_organization"
        /\ HasResponse(i)
        /\ calls[i].response.status = 500
        /\ Done(i)
        /\ calls[i].result.kind = "RequestError"
        /\ calls[i].passed = NoResponse

\* C6 (as claimed): for every response with a 4xx or 5xx status other than
\* 401, whatever its content type and body, the classifier returns an error
\* from which the original status code can be recovered.
C6_ErrorCarriesStatus ==
    \A i \in CallIds :
        (/\ calls[i].op \in GenericOps
         /\ HasResponse(i)
         /\ calls[i].response.status >= 400
         /\ calls[i].response.status < 600
         /\ calls[i].response.status # 401
         /\ Done(i))
        => /\ calls[i].result.kind \in ErrorKinds
           /\ StatusOf(calls[i].result) = Some(calls[i].response.status)

\* C7: when send() fails at the transport level the call returns
\* RequestError, no classifier step runs and no body is read.
C7_TransportFailure ==
    \A i \in CallIds :
        (calls[i].sends >= 1 /\ ~HasResponse(i))
        => /\ Done(i)
           /\ calls[i].result.kind = "RequestError"
           /\ calls[i].result.cause = "connect"
           /\ calls[i].classified = 0
           /\ calls[i].body_reads = 0
           /\ calls[i].sends = 1

C7_Witness ==
    \E i \in CallIds :
        /\ calls[i].op = "create_organization"
        /\ calls[i].sends = 1
        /\ ~HasResponse(i)
        /\ Done(i)
        /\ calls[i].result = RequestError(ConnectErr)

\* The body is an authenticate error payload with the given code and
\* description: a JSON object with one `error` and one `error_description`.
IsErrorPayload(body, code, description) ==
    /\ body.kind = "object"
    /\ <<"error", code>> \in body.members
    /\ <<"error_description", description>> \in body.members
    /\ \A m \in body.members :
          /\ (m[1] = "error" => m[2] = code)
          /\ (m[1] = "error_description" => m[2] = description)

Codes == { m[2] : m \in { mm \in Members : mm[1] = "error" } }
Descriptions == { m[2] : m \in { mm \in Members : mm[1] = "error_description" } }

\* C8: an authenticate call answered with status 400 and an error payload
\* whose code is invalid_client or unauthorized_client returns Unauthorized,
\* in authenticate_with_code and in authenticate_with_refresh_token.
C8_InvalidClientIsUnauthorized ==
    \A i \in CallIds :
        (/\ calls[i].op \in AuthenticateOps
         /\ HasResponse(i)
         /\ calls[i].response.status = 400
         /\ \E code \in {"invalid_client", "unauthorized_client"},
               description \in Descriptions :
               IsErrorPayload(calls[i].response.body, code, description)
         /\ Done(i))
        => calls[i].result = Unauthorized

C8_Witness ==
    \E i \in CallIds :
        /\ calls[i].op = "authenticate_with_refresh_token"
        /\ HasResponse(i)
        /\ calls[i].response.status = 400
        /\ IsErrorPayload(calls[i].response.body, "unauthorized_client",
                          "Invalid client ID.")
        /\ Done(i)
        /\ calls[i].result = Unauthorized

\* C9: an authenticate call answered with status 400 and an error payload
\* whose code is neither invalid_client nor unauthorized_client returns
\* Operation carrying exactly the code and the description of the body.
C9_OperationCarriesPayload ==
    \A i \in CallIds :
        \A code \in Codes \ {"invalid_client", "unauthorized_client"},
           description \in Descriptions :
            (/\ calls[i].op \in AuthenticateOps
             /\ HasResponse(i)
             /\ calls[i].response.status = 400
             /\ IsErrorPayload(calls[i].response.body, code, description)
             /\ Done(i))
            => /\ calls[i].result.kind = "Operation"
               /\ calls[i].result.error.error = code
               /\ calls[i].result.error.error_description = description

C9_Witness ==
    \E i \in CallIds :
        /\ calls[i].op = "authenticate_with_code"
        /\ HasResponse(i)
        /\ calls[i].response.status = 400
        /\ IsErrorPayload(calls[i].response.body, "invalid_grant",
                          "The code has expired.")
        /\ Done(i)
        /\ calls[i].result.kind = "Operation"
        /\ calls[i].result.error.error_description = "The code has expired."

\* The key the model keeps of the operation's target type.
RequiredKey(op) == IF op = "create_organization" THEN "id" ELSE "access_token"

\* The body cannot be deserialized into the operation's target type.
Undeserializable(op, body) ==
    \/ body.kind # "object"
    \/ Cardinality({ m \in body.members : m[1] = RequiredKey(op) }) # 1

\* C10: when the status is 2xx but the body cannot be deserialized into the
\* target type, the call returns RequestError (a decode error), which
\* carries no object.
C10_DeserializationFailure ==
    \A i \in CallIds :
        (/\ calls[i].op \in DeserializingOps
         /\ HasResponse(i)
         /\ is_success(calls[i].response.status)
         /\ Undeserializable(calls[i].op, calls[i].response.body)
         /\ Done(i))
        => calls[i].result = RequestError(DecodeErr)

C10_Witness ==
    \E i \in CallIds :
        /\ calls[i].op = "create_organization"
        /\ HasResponse(i)
        /\ calls[i].response.status = 200
        /\ calls[i].response.body =
               JsonObject({<<"error", "invalid_grant">>})
        /\ Done(i)
        /\ calls[i].result = RequestError(DecodeErr)

(***************************************************************************)
(* Requests, credentials and the order of the steps                        *)
(***************************************************************************)
HasRequest(i) == calls[i].request # NoRequest

InBody(request, text) == \E m \in request.body : m[2] = text

InUrl(request, text) ==
    \/ request.url.origin = text
    \/ request.url.path = text
    \/ \E m \in request.query : m[2] = text

\* C11 (as claimed): in every request the configured API key appears only
\* in the Authorization header, never in the body or in the URL.
C11_KeyOnlyInAuthorizationHeader ==
    \A i \in CallIds :
        (HasRequest(i) /\ client.api_key # None)
        => /\ ~InBody(calls[i].request, TheKey(client).secret)
           /\ ~InUrl(calls[i].request, TheKey(client).secret)

\* C11 (amended): the API key is never in the URL, and the operations other
\* than the authenticate operations carry it only in the Authorization
\* header; authenticate_with_refresh_token places it in the request body as
\* client_secret (and sets no Authorization header), and the body of
\* authenticate_with_code carries it exactly when the caller passes it as
\* the client secret.
C11_KeyPlacement ==
    \A i \in CallIds :
        (HasRequest(i) /\ client.api_key # None)
        => LET key == TheKey(client).secret
               request == calls[i].request IN
           /\ ~InUrl(request, key)
           /\ (calls[i].op \notin AuthenticateOps => ~InBody(request, key))
           /\ (calls[i].op = "authenticate_with_refresh_token"
                 => /\ <<"client_secret", key>> \in request.body
                    /\ request.authorization = None)
           /\ (calls[i].op = "authenticate_with_code"
                 => (InBody(request, key)
                       <=> calls[i].params.client_secret = Some(ClientSecret(key))))

C11_Witness ==
    \E i \in CallIds :
        /\ calls[i].op = "authenticate_with_refresh_token"
        /\ HasRequest(i)
        /\ calls[i].sends = 1
        /\ <<"client_secret", "sk_example_123456789">> \in calls[i].request.body

\* C12 (as claimed): every result is a success value or one of the six
\* variants Operation, Unauthorized, UrlParseError, IpAddrParseError,
\* RequestError, ApiError.
C12_SixErrorVariants ==
    \A i \in CallIds :
        Done(i) => calls[i].result.kind \in
                     {"Ok", "Operation", "Unauthorized", "UrlParseError",
                      "IpAddrParseError", "RequestError", "ApiError"}

\* C13: no call retries: send() is invoked at most once, only by a call
\* that has no result yet, and a call that has ended never changes again.
C13_NoRetry ==
    [][\A i \in CallIds :
          /\ calls'[i].sends <= 1
          /\ (calls'[i].sends # calls[i].sends
                => calls[i].sends = 0 /\ calls[i].result = NoResult)
          /\ (calls[i].result # NoResult => calls'[i] = calls[i])]_vars

C13_Witness ==
    \E i \in CallIds :
        /\ calls[i].op = "create_organization"
        /\ HasResponse(i)
        /\ calls[i].response.status = 500
        /\ Done(i)
        /\ calls[i].result.kind = "RequestError"
        /\ calls[i].sends = 1

\* C14: when joining the URL fails the call returns UrlParseError and no
\* request is created or sent.
C14_UrlErrorBeforeNetwork ==
    \A i \in CallIds :
        /\ (calls[i].pc # "idle" /\ client.base_url.cannot_be_a_base)
              => /\ Done(i)
                 /\ calls[i].result = UrlParseError
        /\ calls[i].result = UrlParseError
              => /\ ~HasRequest(i)
                 /\ calls[i].sends = 0
                 /\ ~HasResponse(i)

C14_Witness ==
    \E i \in CallIds :
        /\ calls[i].op = "authenticate_with_refresh_token"
        /\ client.api_key = None
        /\ calls[i].result = UrlParseError
        /\ ~HasRequest(i)
        /\ calls[i].sends = 0

\* C15: the response is classified exactly once, after send() returned it
\* and before any deserialization of its body.
C15_ClassifiedOnce ==
    \A i \in CallIds :
        /\ calls[i].classified <= 1
        /\ (calls[i].classified = 1 => HasResponse(i) /\ calls[i].sends = 1)
        /\ (calls[i].pc = "classify"
              => calls[i].classified = 0 /\ calls[i].body_reads = 0)
        /\ (calls[i].pc \in {"read_error_body", "deserialize"}
              => calls[i].classified = 1)
        /\ (calls[i].body_reads >= 1 => calls[i].classified = 1)
        /\ (Done(i) /\ HasResponse(i) => calls[i].classified = 1)

C15_Witness ==
    \E i \in CallIds :
        /\ calls[i].op = "create_organization"
        /\ Done(i)
        /\ calls[i].result = Ok([id |-> "org_123"])
        /\ calls[i].classified = 1
        /\ calls[i].body_reads = 1

\* C16: on every path of every call the response body is read at most
\* once.
C16_BodyReadAtMostOnce ==
    \A i \in CallIds : calls[i].body_reads <= 1

C16_Witness ==
    \E i \in CallIds :
        /\ calls[i].op = "create_organization"
        /\ HasResponse(i)
        /\ calls[i].response.status = 400
        /\ calls[i].response.content_type = TextHeader(<<"application/json">>)
        /\ calls[i].response.body = TextBody
        /\ Done(i)
        /\ calls[i].result = RequestError(DecodeErr)
        /\ calls[i].body_reads = 1

\* C18: every operation other than the authenticate operations sends its
\* request with the header Authorization: Bearer <configured API key>.
C18_BearerHeader ==
    \A i \in CallIds :
        (calls[i].op \in Ops \ (AuthenticateOps \cup {"handle_authenticate_error"})
            /\ calls[i].sends >= 1)
        => /\ client.api_key # None
           /\ HasRequest(i)
           /\ calls[i].request.authorization =
                 Some(<<"Bearer ", TheKey(client).secret>>)

C18_Witness ==
    \E i \in CallIds :
        /\ calls[i].op = "create_organization"
        /\ calls[i].sends = 1
        /\ calls[i].request.authorization =
               Some(<<"Bearer ", "sk_example_123456789">>)

\* Content types that do not declare JSON.
NonJsonContentTypes == {NoHeader, OpaqueHeader, TextHeader(<<"text/html">>)}

C20_GenericErrorIsRequestError ==
    \A i \in CallIds :
        (/\ calls[i].op \in GenericOps
         /\ HasResponse(i)
         /\ calls[i].response.status >= 400
         /\ calls[i].response.status < 600
         /\ calls[i].response.status # 401
         /\ Done(i))
        => calls[i].result.kind = "RequestError"

(***************************************************************************)
(* Error bodies that do not parse, await points and unit operations        *)
(***************************************************************************)
IsErrorStatus(status) == is_client_error(status) \/ is_server_error(status)

\* The body is not a JSON object that has exactly one member for the code
\* and exactly one for the description of an error payload.
MalformedPayload(body, codeKeys, textKeys) ==
    \/ body.kind # "object"
    \/ Cardinality({ m \in body.members : m[1] \in codeKeys }) # 1
    \/ Cardinality({ m \in body.members : m[1] \in textKeys }) # 1

\* The response is an error response whose body cannot be parsed into the
\* payload the operation expects: an authenticate 400 or 403 with a
\* malformed payload, or a JSON-typed 4xx/5xx whose body is not JSON.
UnparseableErrorBody(op, response) ==
    \/ /\ op = "handle_authenticate_error"
       /\ response.status \in {BAD_REQUEST, FORBIDDEN}
       /\ MalformedPayload(response.body, {"code", "error"},
                           {"message", "error_description"})
    \/ /\ op \in AuthenticateOps
       /\ response.status \in {BAD_REQUEST, FORBIDDEN}
       /\ MalformedPayload(response.body, {"error"}, {"error_description"})
    \/ /\ IsErrorStatus(response.status)
       /\ is_json_content_type(response.content_type)
       /\ response.body.kind # "object"

\* C21 (as claimed): a call answered with an error response whose body
\* cannot be parsed into the expected payload ends with RequestError, never
\* with Operation or Unauthorized.
C21_UnparseableIsRequestError ==
    \A i \in CallIds :
        (/\ HasResponse(i)
         /\ UnparseableErrorBody(calls[i].op, calls[i].response)
         /\ Done(i))
        => calls[i].result.kind = "RequestError"

\* C21 (amended): the same, except that an operation that classifies with
\* handle_unauthorized_or_generic_error answers a 401 with Unauthorized
\* without looking at the body; every other call whose error body cannot be
\* parsed ends with RequestError once it was classified.
C21_UnparseableIsRequestErrorUnless401 ==
    \A i \in CallIds :
        (/\ HasResponse(i)
         /\ UnparseableErrorBody(calls[i].op, calls[i].response)
         /\ Done(i))
        => IF calls[i].op \in GenericOps /\ calls[i].response.status = UNAUTHORIZED
           THEN calls[i].result = Unauthorized /\ calls[i].body_reads = 0
           ELSE /\ calls[i].result.kind = "RequestError"
                /\ calls[i].body_reads <= 1

C21_Witness ==
    \E i \in CallIds :
        /\ calls[i].op = "handle_authenticate_error"
        /\ HasResponse(i)
        /\ calls[i].response.status = 403
        /\ calls[i].response.body = JsonObject({<<"message", "Forbidden">>})
        /\ Done(i)
        /\ calls[i].result = RequestError(DecodeErr)
        /\ calls[i].body_reads = 1

\* The call is suspended at send().await / at a body read (json().await).
AwaitingSend(i) == calls[i].pc = "built"
AwaitingBody(i) == calls[i].pc \in {"read_error_body", "deserialize"}

\* C22 (as claimed): every call that sent its request awaits exactly two
\* steps, send() and then one body read.
C22_ExactlyTwoAwaits ==
    \A i \in CallIds :
        (Done(i) /\ HasRequest(i))
        => calls[i].sends = 1 /\ calls[i].body_reads = 1

\* C22 (amended): a call awaits send() once and then at most one body read,
\* one after the other: a body read is pending or done only after send()
\* has returned a response, and no body was read while send() is awaited.
\* A call that ends with a deserialized value awaited exactly the two; a
\* unit operation that ends with Ok(()) awaited send() only.
C22_SequentialAwaits ==
    \A i \in CallIds :
        /\ calls[i].sends <= 1
        /\ calls[i].body_reads <= 1
        /\ (AwaitingBody(i) \/ calls[i].body_reads >= 1
              => calls[i].sends = 1 /\ HasResponse(i))
        /\ (AwaitingSend(i) => calls[i].sends = 0 /\ calls[i].body_reads = 0)
        /\ (AwaitingBody(i) => calls[i].body_reads = 0)
        /\ (Done(i) /\ calls[i].op \in DeserializingOps /\ calls[i].result.kind = "Ok"
              => calls[i].sends = 1 /\ calls[i].body_reads = 1)
        /\ (Done(i) /\ calls[i].op \in UnitOps /\ calls[i].result.kind = "Ok"
              => calls[i].sends = 1 /\ calls[i].body_reads = 0)

C22_Witness ==
    \E i \in CallIds :
        /\ calls[i].op = "delete_user"
        /\ HasResponse(i)
        /\ calls[i].response.status = 204
        /\ Done(i)
        /\ calls[i].result = Ok("unit")
        /\ calls[i].sends = 1
        /\ calls[i].body_reads = 0

LiveBodies ==
    { EmptyBody, TextBody, JsonObject({}),
      JsonObject({<<"id", "org_123">>}),
      JsonObject({<<"access_token", "eyJhb">>}),
      JsonObject({<<"error", "invalid_client">>,
                  <<"error_description", "Invalid client ID.">>}),
      JsonObject({<<"error", "invalid_grant">>,
                  <<"error_description", "The code has expired.">>}),
      JsonObject({<<"code", "invalid_client">>, <<"message", "Forbidden">>}) }

LiveResponses == [status : Statuses, content_type : ContentTypes, body : LiveBodies]

LiveNext ==
    \/ \E i \in CallIds, op \in Ops : \E params \in ParamsOf(op) : Begin(i, op, params)
    \/ \E i \in CallIds, response \in LiveResponses : SendOk(i, response)
    \/ \E i \in CallIds : SendFails(i)
    \/ \E i \in CallIds : Classify(i)
    \/ \E i \in CallIds : ReadErrorBody(i)
    \/ \E i \in CallIds : Deserialize(i)

\* A call whose transport eventually answers or fails: send().await does not
\* stay pending for ever, and the executor keeps polling the call, so the
\* classifier and every body read that has a response to work on complete.
FairSpec ==
    /\ Init
    /\ [][LiveNext]_vars
    /\ WF_vars(\E i \in CallIds :
                  \/ SendFails(i)
                  \/ \E response \in LiveResponses : SendOk(i, response))
    /\ WF_vars(\E i \in CallIds : Classify(i))
    /\ WF_vars(\E i \in CallIds : ReadErrorBody(i))
    /\ WF_vars(\E i \in CallIds : Deserialize(i))

\* What a call can return: Ok or a WorkOsError.
ResultKinds ==
    {"Ok", "Operation", "Unauthorized", "UrlParseError", "ApiKeyRequired",
     "RequestError", "ApiError"}

\* C25: every call that was started, and whose transport eventually answers
\* or fails, ends with a result that is an Ok value or a WorkOsError value,
\* whatever the status, content type and body of the response.
C25_EveryCallTerminates ==
    \A i \in CallIds :
        (calls[i].pc # "idle")
            ~> (Done(i) /\ calls[i].result.kind \in ResultKinds)

C25_Witness ==
    \E i \in CallIds :
        /\ calls[i].op = "create_organization"
        /\ HasResponse(i)
        /\ calls[i].response.status = 500
        /\ calls[i].response.content_type = TextHeader(<<"application/json">>)
        /\ calls[i].response.body = EmptyBody
        /\ Done(i)
        /\ calls[i].result = RequestError(DecodeErr)

\* The content types whose text, lower-cased, starts with application/json.
JsonContentTypes ==
    { TextHeader(<<"application/json">>),
      TextHeader(<<"Application/JSON", "; charset=utf-8">>) }

ValuesOf(body, keys) == { m[2] : m \in { mm \in body.members : mm[1] \in keys } }

\* C28: in handle_authenticate_error a response with status 403 and a
\* parseable error payload yields Operation carrying that payload, also when
\* its code is invalid_client or unauthorized_client; Unauthorized is
\* returned only for status 400.
C28_ForbiddenIsOperation ==
    \A i \in CallIds :
        (calls[i].op = "handle_authenticate_error" /\ HasResponse(i) /\ Done(i))
        => /\ ((/\ calls[i].response.status = FORBIDDEN
                /\ ~MalformedPayload(calls[i].response.body, {"code", "error"},
                                     {"message", "error_description"}))
                 => /\ calls[i].result.kind = "Operation"
                    /\ ValuesOf(calls[i].response.body, {"code", "error"})
                          = {calls[i].result.error.code}
                    /\ ValuesOf(calls[i].response.body, {"message", "error_description"})
                          = {calls[i].result.error.message})
           /\ (calls[i].result = Unauthorized
                 => calls[i].response.status = BAD_REQUEST)

C28_Witness ==
    \E i \in CallIds :
        /\ calls[i].op = "handle_authenticate_error"
        /\ HasResponse(i)
        /\ calls[i].response.status = 403
        /\ calls[i].response.body =
               JsonObject({<<"code", "invalid_client">>, <<"message", "Forbidden">>})
        /\ Done(i)
        /\ calls[i].result =
               Operation([code |-> "invalid_client", message |-> "Forbidden"])

\* What a caller can tell apart in the outcome of a classifier: Ok,
\* Unauthorized, Operation with its code and description, or RequestError.
OutcomeKind(c) ==
    IF c.ok THEN <<"Ok">>
    ELSE IF c.error.kind = "Operation"
         THEN <<"Operation", c.error.error.error, c.error.error.error_description>>
         ELSE <<c.error.kind>>

\* C29: handle_authenticate_with_code_error and
\* handle_authenticate_with_refresh_token_error return the same outcome
\* kind (and read the body as often) for every response, whatever its
\* status, the code of its payload and whether the payload parses; the
\* authenticate operation that received the response ends with that outcome.
C29_AuthenticateClassifiersEquivalent ==
    \A i \in CallIds :
        HasResponse(i) =>
            LET with_code == handle_authenticate_with_code_error(calls[i].response)
                with_refresh_token ==
                    handle_authenticate_with_refresh_token_error(calls[i].response) IN
            /\ OutcomeKind(with_code) = OutcomeKind(with_refresh_token)
            /\ with_code.reads = with_refresh_token.reads
            /\ ((calls[i].op \in AuthenticateOps /\ Done(i) /\ ~with_code.ok)
                  => /\ calls[i].result = with_code.error
                     /\ calls[i].result = with_refresh_token.error)

C29_Witness ==
    \E i \in CallIds :
        /\ calls[i].op = "authenticate_with_refresh_token"
        /\ HasResponse(i)
        /\ calls[i].response.status = 400
        /\ IsErrorPayload(calls[i].response.body, "invalid_grant",
                          "The code has expired.")
        /\ Done(i)
        /\ calls[i].result.kind = "Operation"
        /\ OutcomeKind(handle_authenticate_with_code_error(calls[i].response))
              = <<"Operation", "invalid_grant", "The code has expired.">>

\* C30 (as claimed): authenticate_with_refresh_token on a client with no
\* API key returns the API-key-required error and no request is created or
\* sent; with a key, the request body carries client_secret equal to the
\* key and grant_type equal to refresh_token.
C30_KeyRequiredFirst ==
    \A i \in CallIds :
        (calls[i].op = "authenticate_with_refresh_token" /\ calls[i].pc # "idle")
        => /\ (client.api_key = None
                 => /\ Done(i)
                    /\ calls[i].result = ApiKeyRequired
                    /\ ~HasRequest(i)
                    /\ calls[i].sends = 0)
           /\ (client.api_key # None /\ HasRequest(i)
                 => /\ <<"client_secret", TheKey(client).secret>> \in calls[i].request.body
                    /\ <<"grant_type", "refresh_token">> \in calls[i].request.body)

\* C30 (amended): on a client with no API key the call returns the
\* API-key-required error if the URL could be joined, and UrlParseError if
\* it could not; in both cases no request is created or sent.  With a key,
\* the request body carries exactly one client_secret, equal to the key,
\* and exactly one grant_type, equal to refresh_token.
C30_KeyRequiredAfterUrl ==
    \A i \in CallIds :
        (calls[i].op = "authenticate_with_refresh_token" /\ calls[i].pc # "idle")
        => /\ (client.api_key = None
                 => /\ Done(i)
                    /\ calls[i].result =
                          IF client.base_url.cannot_be_a_base
                          THEN UrlParseError ELSE ApiKeyRequired
                    /\ ~HasRequest(i)
                    /\ calls[i].sends = 0
                    /\ ~HasResponse(i))
           /\ (calls[i].result = ApiKeyRequired => client.api_key = None)
           /\ (client.api_key # None /\ HasRequest(i)
                 => /\ { m[2] : m \in { mm \in calls[i].request.body :
                                           mm[1] = "client_secret" } }
                          = {TheKey(client).secret}
                    /\ { m[2] : m \in { mm \in calls[i].request.body :
                                           mm[1] = "grant_type" } }
                          = {"refresh_token"})

C30_Witness ==
    \E i \in CallIds :
        /\ calls[i].op = "authenticate_with_refresh_token"
        /\ client.api_key = None
        /\ ~client.base_url.cannot_be_a_base
        /\ Done(i)
        /\ calls[i].result = ApiKeyRequired
        /\ ~HasRequest(i)
        /\ calls[i].sends = 0

(***************************************************************************)
(* Concurrent calls on one client: two callers run the steps of their      *)
(* calls in any interleaving.                                              *)
(***************************************************************************)
ConcurrentCallIds == {"first", "second"}

\* The responses the remote answers concurrent calls with.
ConcurrentResponses ==
    [status : {204, BAD_REQUEST, UNAUTHORIZED},
     content_type : {TextHeader(<<"application/json">>), TextHeader(<<"text/html">>)},
     body : {EmptyBody,
             JsonObject({<<"id", "org_123">>}),
             JsonObject({<<"error", "invalid_grant">>,
                         <<"error_description", "The code has expired.">>})}]

ConcurrentInit ==
    /\ client \in [api_key : {None, Some(ConfiguredKey)}, base_url : BaseUrls]
    /\ calls = [i \in ConcurrentCallIds |-> NewCall]
    /\ transport = NoTransport

ConcurrentNext ==
    \/ \E i \in ConcurrentCallIds, op \in Ops :
          \E params \in ParamsOf(op) : Begin(i, op, params)
    \/ \E i \in ConcurrentCallIds, response \in ConcurrentResponses : SendOk(i, response)
    \/ \E i \in ConcurrentCallIds : SendFails(i)
    \/ \E i \in ConcurrentCallIds : Classify(i)
    \/ \E i \in ConcurrentCallIds : ReadErrorBody(i)
    \/ \E i \in ConcurrentCallIds : Deserialize(i)

ConcurrentSpec == ConcurrentInit /\ [][ConcurrentNext]_vars

\* The outcome of the operation when it runs alone on the client and is
\* answered with `response` (NoResponse: the send fails).
OutcomeAlone(cl, op, params, response) ==
    LET built == BuildRequest(op, cl, params) IN
    IF ~built.ok THEN built.error
    ELSE IF response = NoResponse THEN RequestError(ConnectErr)
    ELSE LET c == Classifier(op, response) IN
         IF ~c.ok THEN c.error
         ELSE IF op \in DeserializingOps
              THEN LET parsed == from_json_target(op, c.response.body) IN
                   IF parsed.ok THEN Ok(parsed.value) ELSE RequestError(DecodeErr)
         ELSE IF op \in UnitOps THEN Ok("unit")
         ELSE Ok(c.response)

\* C23: for every interleaving of two calls on the same client, the outcome
\* of each call is the outcome it has when run alone on its own response
\* and its request is the one it builds alone; every step changes at most
\* the call that takes it, and no step changes the client (client handle,
\* base URL, API key).
C23_ConcurrentCallsIndependent ==
    /\ [](\A i \in ConcurrentCallIds :
            /\ (HasRequest(i)
                  => calls[i].request =
                       BuildRequest(calls[i].op, client, calls[i].params).request)
            /\ (Done(i)
                  => calls[i].result =
                       OutcomeAlone(client, calls[i].op, calls[i].params,
                                    calls[i].response)))
    /\ [][/\ client' = client
          /\ \E i \in ConcurrentCallIds :
                \A j \in ConcurrentCallIds \ {i} : calls'[j] = calls[j]]_vars

C23_Witness ==
    \E i \in ConcurrentCallIds, j \in ConcurrentCallIds :
        /\ i # j
        /\ calls[i].op = "create_organization"
        /\ calls[i].pc = "read_error_body"
        /\ calls[i].response.status = 400
        /\ calls[j].op = "delete_user"
        /\ calls[j].pc = "classify"
        /\ calls[j].response.status = 401

(***************************************************************************)
(* The transport interfaces Client, ClientRequest and ClientResponse, used *)
(* by an arbitrary caller.  A caller can invoke a method only on a box it  *)
(* still owns; a method whose receiver is Box<Self> takes the box from the *)
(* caller, a method whose receiver is &self leaves it with the caller.     *)
(***************************************************************************)
\* Mutant: send and text borrow their receiver.
Receiver_send_and_text_by_reference(method) ==
    CASE method \in {"bearer_auth", "json", "query", "form"} -> "Box<Self>"
      [] method \in {"error_for_status"} -> "Box<Self>"
      [] method \in {"status", "error_for_status_ref", "send", "text"} -> "&self"

\* The receiver of each method of ClientRequest and ClientResponse.
Receiver(method) ==
    CASE method \in {"bearer_auth", "json", "query", "form", "send"} -> "Box<Self>"
      [] method \in {"error_for_status", "text"} -> "Box<Self>"
      [] method \in {"status", "error_for_status_ref"} -> "&self"

BuilderSteps == {"bearer_auth", "json", "query", "form"}

NewBox(kind, request, status) ==
    [kind |-> kind, request |-> request, status |-> status,
     owned |-> TRUE, inspected |-> FALSE]

Owned(h, kind) ==
    /\ h \in DOMAIN transport.boxes
    /\ transport.boxes[h].owned
    /\ transport.boxes[h].kind = kind

\* The boxes after `method` was invoked on box h.
AfterCall(h, method) ==
    [transport.boxes EXCEPT ![h].owned = (Receiver(method) = "&self")]

InitTransport ==
    /\ client = [api_key |-> Some(ConfiguredKey),
                 base_url |-> CHOOSE b \in BaseUrls : ~b.cannot_be_a_base]
    /\ calls = [i \in CallIds |-> NewCall]
    /\ transport = NoTransport

\* Client::get / post / put / delete: a new builder.
Client_request ==
    /\ Len(transport.boxes) < MaxBoxes
    /\ transport' =
         [boxes |-> Append(transport.boxes,
                           NewBox("request", Len(transport.sent) + 1, 0)),
          sent |-> Append(transport.sent, 0),
          read |-> Append(transport.read, 0)]
    /\ UNCHANGED <<client, calls>>

\* ClientRequest::bearer_auth, json, query, form: a builder from a builder.
ClientRequest_step(h, method) ==
    /\ Owned(h, "request")
    /\ Len(transport.boxes) < MaxBoxes
    /\ transport' =
         [transport EXCEPT
            !.boxes = Append(AfterCall(h, method),
                             NewBox("request", transport.boxes[h].request, 0))]
    /\ UNCHANGED <<client, calls>>

\* ClientRequest::send answered by the remote.
ClientRequest_send(h, status) ==
    /\ Owned(h, "request")
    /\ Len(transport.boxes) < MaxBoxes
    /\ transport' =
         [transport EXCEPT
            !.boxes = Append(AfterCall(h, "send"),
                             NewBox("response", transport.boxes[h].request, status)),
            !.sent[transport.boxes[h].request] = @ + 1]
    /\ UNCHANGED <<client, calls>>

\* ClientRequest::send failing below HTTP.
ClientRequest_send_fails(h) ==
    /\ Owned(h, "request")
    /\ transport' =
         [transport EXCEPT
            !.boxes = AfterCall(h, "send"),
            !.sent[transport.boxes[h].request] = @ + 1]
    /\ UNCHANGED <<client, calls>>

\* ClientResponse::status and error_for_status_ref.
ClientResponse_inspect(h, method) ==
    /\ Owned(h, "response")
    /\ ~transport.boxes[h].inspected
    /\ transport' =
         [transport EXCEPT
            !.boxes = [AfterCall(h, method) EXCEPT ![h].inspected = TRUE]]
    /\ UNCHANGED <<client, calls>>

\* ClientResponse::error_for_status: the response again, or an error.
ClientResponse_error_for_status(h) ==
    /\ Owned(h, "response")
    /\ LET box == transport.boxes[h]
           checked == error_for_status([status |-> box.status]) IN
       IF checked.ok
       THEN /\ Len(transport.boxes) < MaxBoxes
            /\ transport' =
                 [transport EXCEPT
                    !.boxes = Append(AfterCall(h, "error_for_status"),
                                     NewBox("response", box.request, box.status))]
       ELSE transport' =
                 [transport EXCEPT !.boxes = AfterCall(h, "error_for_status")]
    /\ UNCHANGED <<client, calls>>

\* ClientResponse::text: the body is read.
ClientResponse_text(h) ==
    /\ Owned(h, "response")
    /\ transport' =
         [transport EXCEPT
            !.boxes = AfterCall(h, "text"),
            !.read[transport.boxes[h].request] = @ + 1]
    /\ UNCHANGED <<client, calls>>

BoxIds == 1..MaxBoxes

NextTransport ==
    \/ Client_request
    \/ \E h \in BoxIds, method \in BuilderSteps : ClientRequest_step(h, method)
    \/ \E h \in BoxIds, status \in {200, 500} : ClientRequest_send(h, status)
    \/ \E h \in BoxIds : ClientRequest_send_fails(h)
    \/ \E h \in BoxIds, method \in {"status", "error_for_status_ref"} :
           ClientResponse_inspect(h, method)
    \/ \E h \in BoxIds : ClientResponse_error_for_status(h)
    \/ \E h \in BoxIds : ClientResponse_text(h)

TransportSpec == InitTransport /\ [][NextTransport]_vars

OwnedBoxes(request, kind) ==
    { h \in DOMAIN transport.boxes :
        /\ transport.boxes[h].request = request
        /\ transport.boxes[h].kind = kind
        /\ transport.boxes[h].owned }

\* C17: through the transport interfaces no builder is sent twice and no
\* response body is read twice: once a request was sent the caller owns no
\* builder of it, and once a body was read the caller owns no box of that
\* response.
C17_SingleUse ==
    \A r \in DOMAIN transport.sent :
        /\ transport.sent[r] <= 1
        /\ transport.read[r] <= 1
        /\ (transport.sent[r] = 1 => OwnedBoxes(r, "request") = {})
        /\ (transport.read[r] = 1 => OwnedBoxes(r, "response") = {})
        /\ Cardinality(OwnedBoxes(r, "request") \cup OwnedBoxes(r, "response")) <= 1

C17_Witness ==
    \E r \in DOMAIN transport.sent :
        /\ transport.sent[r] = 1
        /\ transport.read[r] = 1
        /\ OwnedBoxes(r, "request") = {}
        /\ OwnedBoxes(r, "response") = {}
        /\ \E h \in DOMAIN transport.boxes :
              /\ transport.boxes[h].request = r
              /\ transport.boxes[h].kind = "response"
              /\ transport.boxes[h].inspected

====
